---- MODULE Spec2Model ----
(***************************************************************************)
(* The focus / selection state machine of <wired-datepicker-grid>          *)
(* (packages/wired-datepicker/src/wired-datepicker-grid.ts).               *)
(*                                                                         *)
(* The element keeps four owner-writable properties (selectedDayIndex,     *)
(* minEnabledIndex, maxEnabledIndex, dayCount) and a private cursor        *)
(* _focusIndex.  render() turns the properties into a list of              *)
(* <wired-datepicker-cell> elements; the key and focus handlers read that  *)
(* list back with querySelectorAll.  Rendering is asynchronous: a setter   *)
(* only requests an update, and the update runs as a microtask, that is,   *)
(* after the task that wrote the properties and before the browser         *)
(* dispatches the next input event.                                        *)
(***************************************************************************)
EXTENDS Integers, Sequences, FiniteSets

(***************************************************************************)
(* Bounds of the model.                                                    *)
(***************************************************************************)
\* the owner writes index properties drawn from -1 .. MaxIdx
MaxIdx == 2
\* the owner writes dayCount 0 (an empty grid) or MaxDay (more than a week of cells)
MaxDay == 8
\* the pure-function specification draws indices from -1 .. MaxJump
MaxJump == 12

IdxValues == (-1) .. MaxIdx
DayCounts == {0, MaxDay}
JumpValues == (-1) .. MaxJump

(***************************************************************************)
(* Program constants.                                                      *)
(***************************************************************************)
VK_ENTER == 13
VK_SPACE == 32
VK_END == 35
VK_HOME == 36
VK_LEFT == 37
VK_RIGHT == 39
VK_UP == 38
VK_DOWN == 40
\* a key the switch does not handle (Tab)
OtherKeys == {9}
Keys == {VK_ENTER, VK_SPACE, VK_END, VK_HOME, VK_LEFT, VK_RIGHT, VK_UP, VK_DOWN}
          \cup OtherKeys
\* the steps the key router passes to jumpBackward / jumpForward
StepOne == 1
StepWeek == 7
Steps == {StepOne, StepWeek}

InitFocusIndex == 0
InitSelectedDayIndex == -1
InitMinEnabledIndex == 0
InitMaxEnabledIndex == 32
InitDayCount == 0

VARIABLES
    selectedDayIndex,   \* this._selectedDayIndex
    minEnabledIndex,    \* this._minEnabledIndex
    maxEnabledIndex,    \* this._maxEnabledIndex
    dayCount,           \* this.dayCount
    focusIndex,         \* this._focusIndex
    cells,              \* the <wired-datepicker-cell> elements of the shadow root, in DOM order
    updatePending,      \* an update (re-render) has been requested and not yet performed
    attach,             \* "created" | "connected" | "disconnected"
    hasUpdated,         \* the first update has run (firstUpdated was called)
    listeners,          \* the event listeners attached to the element: records [type, fn]
    lastOp,             \* the operation that ran last: [op, arg]
    fired,              \* the days of the cell-selected events the last operation fired
    domCalls,           \* the blur() / focus() calls the last operation made on cells
    threw,              \* the last operation ended in a TypeError
    ret                 \* the value the last direct call of jumpForward / jumpBackward returned

props == <<selectedDayIndex, minEnabledIndex, maxEnabledIndex, dayCount>>
host == <<cells, updatePending, attach, hasUpdated, listeners>>
outs == <<fired, domCalls, threw>>
vars == <<selectedDayIndex, minEnabledIndex, maxEnabledIndex, dayCount, focusIndex,
          cells, updatePending, attach, hasUpdated, listeners, lastOp, fired, domCalls, threw, ret>>

(***************************************************************************)
(* Math.max / Math.min on integers.                                        *)
(***************************************************************************)
Max(a, b) == IF a >= b THEN a ELSE b
Min(a, b) == IF a <= b THEN a ELSE b

NoRet == [fn |-> "none", step |-> 0, gridLength |-> 0, value |-> 0]

(***************************************************************************)
(* Rendering.                                                              *)
(***************************************************************************)
\* the Cell template: handleSelect is TRUE when a selection callback is bound
Cell(index, selected, disabled, handleSelect) ==
    [index |-> index, selected |-> selected, disabled |-> disabled,
     handleSelect |-> handleSelect]

isCellEnabled(i) == i < maxEnabledIndex /\ i >= minEnabledIndex

\* render with the selection callback bound to every cell, enabled or not
render_CallbackOnEveryCell ==
    LET plain == [i \in 1 .. dayCount |->
                    Cell(i - 1, FALSE, ~isCellEnabled(i - 1), TRUE)]
        chosen == Cell(selectedDayIndex, TRUE, ~isCellEnabled(selectedDayIndex), FALSE)
    IN  IF selectedDayIndex >= 0
        THEN IF selectedDayIndex < dayCount
             THEN [plain EXCEPT ![selectedDayIndex + 1] = chosen]
             ELSE Append(plain, chosen)
        ELSE plain

\* The cell elements render() leaves in the shadow root, in DOM order.  The
\* array has dayCount entries; when selectedDayIndex >= 0 the entry at that
\* index is overwritten with a selected cell that gets no callback.  An index
\* beyond the array grows it with holes, which the template renders as
\* nothing, so the selected cell then follows the dayCount others.
render ==
    LET plain == [i \in 1 .. dayCount |->
                    Cell(i - 1, FALSE, ~isCellEnabled(i - 1), isCellEnabled(i - 1))]
        chosen == Cell(selectedDayIndex, TRUE, ~isCellEnabled(selectedDayIndex), FALSE)
    IN  IF selectedDayIndex >= 0
        THEN IF selectedDayIndex < dayCount
             THEN [plain EXCEPT ![selectedDayIndex + 1] = chosen]
             ELSE Append(plain, chosen)
        ELSE plain

\* cells[i] of the queried NodeList is an element (not undefined)
CellExists(i) == i >= 0 /\ i < Len(cells)

(***************************************************************************)
(* Listeners.  Function.prototype.bind returns a new function object on    *)
(* every call; a listener is identified by its event type and that object. *)
(***************************************************************************)
\* n distinct function objects that are not attached yet
bind(n) ==
    LET used == {l.fn : l \in listeners}
        top == Cardinality(used) + n
    IN  CHOOSE S \in SUBSET (1 .. top) : Cardinality(S) = n /\ S \cap used = {}

HasListener(type) == \E l \in listeners : l.type = type

firstUpdated ==
    LET fns == bind(2)
        f == CHOOSE x \in fns : \A y \in fns : x <= y
        k == CHOOSE x \in fns : x # f
    IN  listeners \cup {[type |-> "focus", fn |-> f], [type |-> "keydown", fn |-> k]}

(***************************************************************************)
(* The focus cursor.                                                       *)
(***************************************************************************)
\* jumpForward with the upper bounds taken as inclusive
jumpForward_Inclusive(step, gridLength) ==
    IF focusIndex + step <= Min(gridLength, maxEnabledIndex)
    THEN focusIndex + step
    ELSE focusIndex

jumpForward(step, gridLength) ==
    IF focusIndex + step < Min(gridLength, maxEnabledIndex)
    THEN focusIndex + step
    ELSE focusIndex

\* jumpBackward without the floor of 0
jumpBackward_NoFloor(step) ==
    IF focusIndex - step >= minEnabledIndex
    THEN focusIndex - step
    ELSE focusIndex

jumpBackward(step) ==
    IF focusIndex - step >= Max(0, minEnabledIndex)
    THEN focusIndex - step
    ELSE focusIndex

\* the switch of handleKeyboardNavigation: the value of newFocusIndex after it
newFocusIndex(keyCode, gridLength) ==
    CASE keyCode = VK_LEFT  -> jumpBackward(StepOne)
      [] keyCode = VK_RIGHT -> jumpForward(StepOne, gridLength)
      [] keyCode = VK_DOWN  -> jumpForward(StepWeek, gridLength)
      [] keyCode = VK_UP    -> jumpBackward(StepWeek)
      [] keyCode = VK_END   -> Min(gridLength, maxEnabledIndex) - 1
      [] keyCode = VK_HOME  -> Max(0, minEnabledIndex)
      [] OTHER              -> focusIndex

\* the keys whose case calls onCellSelected
isActivation(keyCode) == keyCode \in {VK_SPACE, VK_ENTER}

\* the payload taken as the 0-based index
onCellSelected_ZeroBased(cellIndex) == cellIndex

\* the payload of the cell-selected event
onCellSelected(cellIndex) == cellIndex + 1

\* _focusIndex after set selectedDayIndex(value)
focusAfterSelected(value) ==
    IF value < minEnabledIndex \/ value > maxEnabledIndex
    THEN minEnabledIndex
    ELSE value

\* set minEnabledIndex that also keeps the cursor below maxEnabledIndex
focusAfterMin_Clamped(value) ==
    IF Max(value, focusIndex) >= maxEnabledIndex
    THEN value
    ELSE Max(value, focusIndex)

\* _focusIndex after set minEnabledIndex(value)
focusAfterMin(value) == Max(value, focusIndex)

\* set maxEnabledIndex that resets only a cursor beyond the new maximum
focusAfterMax_Strict(value) ==
    IF focusIndex > value THEN minEnabledIndex ELSE focusIndex

\* _focusIndex after set maxEnabledIndex(value)
focusAfterMax(value) ==
    IF focusIndex >= value THEN minEnabledIndex ELSE focusIndex

\* requestUpdate(name, oldValue) enqueues an update when the value changed
requestUpdate(oldValue, value) == updatePending \/ value # oldValue

NoOuts == fired' = << >> /\ domCalls' = << >> /\ threw' = FALSE

(***************************************************************************)
(* Initial state: the element as constructed.                              *)
(***************************************************************************)
Init ==
    /\ selectedDayIndex = InitSelectedDayIndex
    /\ minEnabledIndex = InitMinEnabledIndex
    /\ maxEnabledIndex = InitMaxEnabledIndex
    /\ dayCount = InitDayCount
    /\ focusIndex = InitFocusIndex
    /\ cells = << >>
    /\ updatePending = TRUE
    /\ attach = "created"
    /\ hasUpdated = FALSE
    /\ listeners = {}
    /\ lastOp = [op |-> "constructor", arg |-> 0]
    /\ fired = << >>
    /\ domCalls = << >>
    /\ threw = FALSE
    /\ ret = NoRet

(***************************************************************************)
(* Property writes by the owner.                                           *)
(***************************************************************************)
setSelectedDayIndex(value) ==
    /\ selectedDayIndex' = value
    /\ focusIndex' = focusAfterSelected(value)
    /\ updatePending' = requestUpdate(selectedDayIndex, value)
    /\ lastOp' = [op |-> "selectedDayIndex", arg |-> value]
    /\ NoOuts
    /\ UNCHANGED <<minEnabledIndex, maxEnabledIndex, dayCount, cells, attach,
                   hasUpdated, listeners, ret>>

setMinEnabledIndex(value) ==
    /\ minEnabledIndex' = value
    /\ focusIndex' = focusAfterMin(value)
    /\ lastOp' = [op |-> "minEnabledIndex", arg |-> value]
    /\ NoOuts
    /\ UNCHANGED <<selectedDayIndex, maxEnabledIndex, dayCount, host, ret>>

setMaxEnabledIndex(value) ==
    /\ maxEnabledIndex' = value
    /\ focusIndex' = focusAfterMax(value)
    /\ lastOp' = [op |-> "maxEnabledIndex", arg |-> value]
    /\ NoOuts
    /\ UNCHANGED <<selectedDayIndex, minEnabledIndex, dayCount, host, ret>>

setDayCount(value) ==
    /\ dayCount' = value
    /\ updatePending' = requestUpdate(dayCount, value)
    /\ lastOp' = [op |-> "dayCount", arg |-> value]
    /\ NoOuts
    /\ UNCHANGED <<selectedDayIndex, minEnabledIndex, maxEnabledIndex, focusIndex,
                   cells, attach, hasUpdated, listeners, ret>>

(***************************************************************************)
(* Lifecycle.                                                              *)
(***************************************************************************)
connectedCallback ==
    /\ attach # "connected"
    /\ attach' = "connected"
    /\ lastOp' = [op |-> "connected", arg |-> 0]
    /\ NoOuts
    /\ UNCHANGED <<props, focusIndex, cells, updatePending, hasUpdated, listeners, ret>>

\* removeEventListener is given two functions bind has just made
disconnectedCallback ==
    /\ attach = "connected"
    /\ attach' = "disconnected"
    /\ LET fns == bind(2)
           f == CHOOSE x \in fns : \A y \in fns : x <= y
           k == CHOOSE x \in fns : x # f
       IN  listeners' = listeners \ {[type |-> "focus", fn |-> f],
                                     [type |-> "keydown", fn |-> k]}
    /\ lastOp' = [op |-> "disconnected", arg |-> 0]
    /\ NoOuts
    /\ UNCHANGED <<props, focusIndex, cells, updatePending, hasUpdated, ret>>

\* The pending update: render, then firstUpdated after the first one.  Updates
\* are held until the element has been connected once.
performUpdate ==
    /\ updatePending
    /\ attach # "created"
    /\ cells' = render
    /\ updatePending' = FALSE
    /\ hasUpdated' = TRUE
    /\ listeners' = IF hasUpdated THEN listeners ELSE firstUpdated
    /\ lastOp' = [op |-> "update", arg |-> 0]
    /\ NoOuts
    /\ UNCHANGED <<props, focusIndex, attach, ret>>

(***************************************************************************)
(* Input events.  The browser dispatches them to a connected element, and  *)
(* only after the pending update (a microtask) has run.                    *)
(***************************************************************************)
InputReady == attach = "connected" /\ ~updatePending

handleKeyboardNavigation(keyCode) ==
    /\ InputReady
    /\ HasListener("keydown")
    /\ LET new == newFocusIndex(keyCode, Len(cells))
           moved == new # focusIndex
           blurred == moved /\ CellExists(focusIndex)
           focused == blurred /\ CellExists(new)
       IN  /\ fired' = IF isActivation(keyCode)
                       THEN <<onCellSelected(focusIndex)>>
                       ELSE << >>
           /\ focusIndex' = IF blurred THEN new ELSE focusIndex
           /\ domCalls' = (IF blurred THEN <<<<"blur", focusIndex>>>> ELSE << >>)
                          \o (IF focused THEN <<<<"focus", new>>>> ELSE << >>)
           /\ threw' = (moved /\ ~focused)
    /\ lastOp' = [op |-> "keydown", arg |-> keyCode]
    /\ UNCHANGED <<props, host, ret>>

forwardFocusToCell ==
    /\ InputReady
    /\ HasListener("focus")
    /\ LET forward == focusIndex < maxEnabledIndex
       IN  /\ domCalls' = IF forward /\ CellExists(focusIndex)
                          THEN <<<<"focus", focusIndex>>>>
                          ELSE << >>
           /\ threw' = (forward /\ ~CellExists(focusIndex))
    /\ fired' = << >>
    /\ lastOp' = [op |-> "focus", arg |-> 0]
    /\ UNCHANGED <<props, focusIndex, host, ret>>

\* a click on the cell element at DOM position pos (0-based)
clickCell(pos) ==
    /\ InputReady
    /\ CellExists(pos)
    /\ fired' = IF cells[pos + 1].handleSelect
                THEN <<onCellSelected(cells[pos + 1].index)>>
                ELSE << >>
    /\ domCalls' = << >>
    /\ threw' = FALSE
    /\ lastOp' = [op |-> "click", arg |-> pos]
    /\ UNCHANGED <<props, focusIndex, host, ret>>

Next ==
    \/ \E value \in IdxValues : setSelectedDayIndex(value)
    \/ \E value \in IdxValues : setMinEnabledIndex(value)
    \/ \E value \in IdxValues : setMaxEnabledIndex(value)
    \/ \E value \in DayCounts : setDayCount(value)
    \/ connectedCallback
    \/ disconnectedCallback
    \/ performUpdate
    \/ \E keyCode \in Keys : handleKeyboardNavigation(keyCode)
    \/ forwardFocusToCell
    \/ \E pos \in 0 .. MaxDay : clickCell(pos)

Spec == Init /\ [][Next]_vars

(***************************************************************************)
(* jumpForward and jumpBackward as functions of the cursor and the bounds: *)
(* the cursor and the bounds are drawn from JumpValues, and every call the *)
(* key router can make is applied to them.                                 *)
(***************************************************************************)
InitJump ==
    /\ selectedDayIndex = InitSelectedDayIndex
    /\ minEnabledIndex \in JumpValues
    /\ maxEnabledIndex \in JumpValues
    /\ dayCount = InitDayCount
    /\ focusIndex \in JumpValues
    /\ cells = << >>
    /\ updatePending = TRUE
    /\ attach = "created"
    /\ hasUpdated = FALSE
    /\ listeners = {}
    /\ lastOp = [op |-> "constructor", arg |-> 0]
    /\ fired = << >>
    /\ domCalls = << >>
    /\ threw = FALSE
    /\ ret = NoRet

callJumpBackward(step) ==
    /\ ret' = [fn |-> "jumpBackward", step |-> step, gridLength |-> 0,
               value |-> jumpBackward(step)]
    /\ UNCHANGED <<props, focusIndex, host, lastOp, outs>>

callJumpForward(step, gridLength) ==
    /\ ret' = [fn |-> "jumpForward", step |-> step, gridLength |-> gridLength,
               value |-> jumpForward(step, gridLength)]
    /\ UNCHANGED <<props, focusIndex, host, lastOp, outs>>

NextJump ==
    \/ \E step \in Steps : callJumpBackward(step)
    \/ \E step \in Steps, gridLength \in 0 .. MaxJump : callJumpForward(step, gridLength)

SpecJump == InitJump /\ [][NextJump]_vars

(***************************************************************************)
(* Properties.                                                             *)
(***************************************************************************)
ArrowKeys == {VK_LEFT, VK_UP, VK_RIGHT, VK_DOWN}
InRange(i) == minEnabledIndex <= i /\ i < maxEnabledIndex
LastKey(keyCode) == lastOp = [op |-> "keydown", arg |-> keyCode]
\* the cell element the last click landed on
Clicked == cells[lastOp.arg + 1]

\* C1: after a write of selectedDayIndex = v the cursor is v, unless v is
\* outside [minEnabledIndex, maxEnabledIndex), and then it is minEnabledIndex
\* (v = maxEnabledIndex is outside).
C1_SelectedSetsFocus ==
    lastOp.op = "selectedDayIndex" =>
        focusIndex = IF InRange(selectedDayIndex)
                     THEN selectedDayIndex
                     ELSE minEnabledIndex

\* C2: in every reachable state whose enabled range is not empty the cursor
\* lies in it: minEnabledIndex <= focusIndex < maxEnabledIndex.
C2_FocusInEnabledRange ==
    minEnabledIndex < maxEnabledIndex => InRange(focusIndex)

\* C3: no key event and no focus event ends in an exception: every cell the
\* handlers call blur() or focus() on exists.
C3_HandlersNeverThrow == ~threw

\* C4: while the enabled range is empty or inverted, the arrow keys leave the
\* cursor where it is.
C4_ArrowsIdleOnEmptyRange ==
    [][(maxEnabledIndex <= minEnabledIndex
        /\ \E keyCode \in ArrowKeys : handleKeyboardNavigation(keyCode))
       => focusIndex' = focusIndex]_vars

\* C5: jumpBackward(step) returns focusIndex - step exactly when
\* focusIndex - step >= max(0, minEnabledIndex), and focusIndex otherwise; the
\* cursor itself is as it was before the call.
C5_JumpBackward ==
    ret.fn = "jumpBackward" =>
        LET target == focusIndex - ret.step
            allowed == target >= 0 /\ target >= minEnabledIndex
        IN  /\ (ret.value = target) <=> allowed
            /\ ~allowed => ret.value = focusIndex

\* C5 witness: a week's jump back that is taken, above a positive lower bound.
C5_Witness ==
    /\ ret.fn = "jumpBackward"
    /\ ret.step = StepWeek
    /\ minEnabledIndex > 0
    /\ ret.value = focusIndex - StepWeek

\* C6: jumpForward(step, cellCount) returns focusIndex + step exactly when
\* focusIndex + step < min(cellCount, maxEnabledIndex), and focusIndex
\* otherwise.
C6_JumpForward ==
    ret.fn = "jumpForward" =>
        LET target == focusIndex + ret.step
            allowed == target < ret.gridLength /\ target < maxEnabledIndex
        IN  /\ (ret.value = target) <=> allowed
            /\ ~allowed => ret.value = focusIndex

\* C6 witness: the cursor on 10 with maxEnabledIndex 12 stays on 10 for a
\* week's jump forward.
C6_Witness ==
    /\ ret.fn = "jumpForward"
    /\ ret.step = StepWeek
    /\ focusIndex = 10
    /\ maxEnabledIndex = 12
    /\ ret.value = 10

\* C7: after a Home key event the cursor is max(0, minEnabledIndex), and
\* after an End key event it is min(cellCount, maxEnabledIndex) - 1.
C7_HomeEndLanding ==
    /\ LastKey(VK_HOME) => focusIndex = Max(0, minEnabledIndex)
    /\ LastKey(VK_END) => focusIndex = Min(Len(cells), maxEnabledIndex) - 1

\* C8: a Space or Enter key event fires exactly one cell-selected event,
\* with day = focusIndex + 1, and leaves the cursor, the selection and the
\* bounds as they were.
C8_ActivationFiresFocusedDay ==
    [][\A keyCode \in {VK_SPACE, VK_ENTER} :
         handleKeyboardNavigation(keyCode) =>
            /\ fired' = <<focusIndex + 1>>
            /\ UNCHANGED <<focusIndex, selectedDayIndex, minEnabledIndex,
                           maxEnabledIndex>>]_vars

\* C8 witness: from the initial bounds, Home, Right five times and Enter
\* have fired day 6.
C8_Witness ==
    /\ LastKey(VK_ENTER)
    /\ fired = <<6>>
    /\ focusIndex = 5
    /\ selectedDayIndex = InitSelectedDayIndex
    /\ minEnabledIndex = InitMinEnabledIndex
    /\ maxEnabledIndex = InitMaxEnabledIndex

\* C9: a cell rendered as disabled has no selection callback, and a click on
\* it fires no cell-selected event, the selected cell included.
C9_DisabledCellIsInert ==
    /\ \A p \in DOMAIN cells : cells[p].disabled => ~cells[p].handleSelect
    /\ (lastOp.op = "click" /\ Clicked.disabled) => fired = << >>

\* C9 witness: a click has landed on a disabled cell that is the selected one.
C9_Witness ==
    /\ lastOp.op = "click"
    /\ Clicked.disabled
    /\ Clicked.selected
    /\ Clicked.index = selectedDayIndex
    /\ fired = << >>

\* C10: a click on a cell rendered as enabled fires cell-selected with
\* day = i + 1, also when the cell is the selected one.
C10_EnabledClickFires ==
    (/\ lastOp.op = "click"
     /\ Clicked.index >= 0 /\ Clicked.index < dayCount
     /\ ~Clicked.disabled) =>
        fired = <<Clicked.index + 1>>

\* C11: when disconnectedCallback has run, the focus and keydown listeners
\* that firstUpdated attached are gone: the element has no listener left.
C11_ListenersReleasedOnDetach ==
    lastOp.op = "disconnected" => listeners = {}

\* C12: a focus event forwards DOM focus to the cell at the cursor only when
\* the cursor is in the enabled range, minEnabledIndex <= focusIndex <
\* maxEnabledIndex; otherwise no cell is focused.
C12_FocusForwardedInRangeOnly ==
    (lastOp.op = "focus" /\ domCalls # << >>) => InRange(focusIndex)

\* C13: with no cell rendered, a key event is a no-op: it fires no
\* cell-selected event, makes no blur() or focus() call and does not fail.
C13_KeysIdleWithoutCells ==
    (lastOp.op = "keydown" /\ Len(cells) = 0) =>
        /\ fired = << >>
        /\ domCalls = << >>
        /\ ~threw

\* C14: a write of minEnabledIndex = v stores v unclamped, makes the cursor
\* max(old cursor, v) whatever maxEnabledIndex is, and leaves
\* maxEnabledIndex, selectedDayIndex and dayCount as they were.
C14_SetMinEffect ==
    [][\A v \in IdxValues :
         lastOp' = [op |-> "minEnabledIndex", arg |-> v] =>
            /\ minEnabledIndex' = v
            /\ focusIndex' = (IF focusIndex >= v THEN focusIndex ELSE v)
            /\ UNCHANGED <<maxEnabledIndex, selectedDayIndex, dayCount>>]_vars

\* C14 witness: a write of minEnabledIndex has pulled the cursor up to the
\* new minimum, past maxEnabledIndex.
C14_Witness ==
    /\ lastOp.op = "minEnabledIndex"
    /\ minEnabledIndex = lastOp.arg
    /\ focusIndex = minEnabledIndex
    /\ focusIndex > maxEnabledIndex
    /\ maxEnabledIndex > 0

\* C15: a write of maxEnabledIndex = v stores v; a cursor >= v becomes
\* minEnabledIndex (also when minEnabledIndex >= v), a cursor < v stays; and
\* minEnabledIndex, selectedDayIndex and dayCount are as they were.
C15_SetMaxEffect ==
    [][\A v \in IdxValues :
         lastOp' = [op |-> "maxEnabledIndex", arg |-> v] =>
            /\ maxEnabledIndex' = v
            /\ focusIndex' = (IF focusIndex >= v THEN minEnabledIndex ELSE focusIndex)
            /\ UNCHANGED <<minEnabledIndex, selectedDayIndex, dayCount>>]_vars

\* C15 witness: with the cursor on minEnabledIndex = 2, maxEnabledIndex = 2
\* has been written and the cursor is still 2, in an empty range.
C15_Witness ==
    /\ lastOp = [op |-> "maxEnabledIndex", arg |-> 2]
    /\ maxEnabledIndex = 2
    /\ minEnabledIndex = 2
    /\ focusIndex = 2

\* C16: no write of selectedDayIndex, minEnabledIndex or maxEnabledIndex
\* leaves the rendered grid stale: once no update is pending, the rendered
\* cells are those of the current properties.
C16_WritesRerender ==
    (hasUpdated /\ ~updatePending) => cells = render

\* C17: render produces exactly dayCount cells, and the cell at position i
\* has index i, selected = (i = selectedDayIndex) and
\* disabled = ~(minEnabledIndex <= i < maxEnabledIndex), also when
\* selectedDayIndex >= dayCount.
C17_RenderedCells ==
    lastOp.op = "update" =>
        /\ Len(cells) = dayCount
        /\ \A i \in 0 .. (dayCount - 1) :
              /\ i + 1 \in DOMAIN cells
              /\ cells[i + 1].index = i
              /\ cells[i + 1].selected = (i = selectedDayIndex)
              /\ cells[i + 1].disabled = ~InRange(i)

\* C18: a Left, Up, Right, Down, Home or End key event that moves the cursor
\* moves it to an enabled, existing cell:
\* max(0, minEnabledIndex) <= focusIndex < min(cellCount, maxEnabledIndex).
C18_NavigationStaysEnabled ==
    [][(/\ \E keyCode \in ArrowKeys \cup {VK_HOME, VK_END} :
             lastOp' = [op |-> "keydown", arg |-> keyCode]
        /\ focusIndex' # focusIndex)
       => /\ focusIndex' >= 0
          /\ focusIndex' >= minEnabledIndex
          /\ focusIndex' < Len(cells)
          /\ focusIndex' < maxEnabledIndex]_vars

\* C19: every cell-selected event carries day = i + 1 for a cell i that is
\* rendered and enabled when it is emitted: 0 <= i < dayCount and
\* minEnabledIndex <= i < maxEnabledIndex.
C19_SelectedDayIsEnabledCell ==
    \A n \in DOMAIN fired :
        /\ fired[n] - 1 >= 0
        /\ fired[n] - 1 < dayCount
        /\ InRange(fired[n] - 1)

====
